---- MODULE Spec2Model ----
(***************************************************************************)
(* SimpleImage block tool (Editor.js plugin): the in-memory record _data,  *)
(* the cached DOM subtree built by render(), the browser's image-load and  *)
(* FileReader callbacks, and the host's stretchBlock command.              *)
(***************************************************************************)
EXTENDS Integers, Sequences, FiniteSets, TLC

\* ------------------------------------------------------------------ bounds

\* at most this many FileReader encodings are in flight at once
MaxPendingReads == 2

\* api.blocks.getCurrentBlockIndex() answers -1 (no current block) .. this
MaxCurrentIndex == 0

\* ------------------------------------------------------------ value domains

\* sources an <img> tag or a saved record can carry
Urls == {"https://x/y.jpg"}

\* texts the host may hand to the pattern matcher
PastedTexts == {"https://example.com/pic.PNG", "https://example.com/page.html",
                "ftp://example.com/pic.png", "https://example.com/a b.png"}

\* caption markup: saved with a record, or typed into the caption element
Captions == {"a<br>b"}

\* files that can be pasted or dropped: name, MIME type, content in base64
Files == {[name |-> "cat.png", type |-> "image/png", base64 |-> "iVBORw0KGgo="]}

\* ------------------------------------------------------- JavaScript helpers

\* Partial<T> fields and optional arguments: <<>> is undefined, <<v>> is v
Undefined == <<>>

Some(v) == <<v>>

Opt(S) == {Undefined} \cup {Some(v) : v \in S}

\* x || "" on an optional string: undefined and "" both give ""
OrEmpty(x) == IF x = Undefined THEN "" ELSE IF x[1] = "" THEN "" ELSE x[1]

\* x ?? false on an optional boolean
OrFalse(x) == IF x = Undefined THEN FALSE ELSE x[1]

\* Object.assign(target, source): source's own keys overwrite target's
ObjectAssign(target, source) ==
    [k \in DOMAIN target \cup DOMAIN source |->
        IF k \in DOMAIN source THEN source[k] ELSE target[k]]

\* an object with no keys (also what Object.assign sees for an undefined source)
EmptyObject == [k \in {} |-> ""]

\* String.prototype.toLowerCase on one character
UpperCase == "ABCDEFGHIJKLMNOPQRSTUVWXYZ"

LowerCase == "abcdefghijklmnopqrstuvwxyz"

IsUpper(c) == \E i \in 1..Len(UpperCase) : SubSeq(UpperCase, i, i) = c

ToLower(c) ==
    IF IsUpper(c)
    THEN LET i == CHOOSE j \in 1..Len(UpperCase) : SubSeq(UpperCase, j, j) = c
         IN  SubSeq(LowerCase, i, i)
    ELSE c

RECURSIVE ToLowerCase(_)
ToLowerCase(s) ==
    IF Len(s) = 0 THEN ""
    ELSE ToLower(SubSeq(s, 1, 1)) \o ToLowerCase(SubSeq(s, 2, Len(s)))

\* name.replace(/([A-Z])/g, (g) => `-${g[0].toLowerCase()}`)
RECURSIVE Hyphenate(_)
Hyphenate(s) ==
    IF Len(s) = 0 THEN ""
    ELSE LET c == SubSeq(s, 1, 1)
         IN  (IF IsUpper(c) THEN "-" \o ToLower(c) ELSE c)
                 \o Hyphenate(SubSeq(s, 2, Len(s)))

\* ----------------------------------------------------------- static config

\* this.tunes, in the order the constructor lists them
Tunes == <<"withBorder", "stretched", "withBackground">>

TuneNames == {Tunes[i] : i \in DOMAIN Tunes}

\* this.CSS.imageHolder
ImageHolderClass == "cdx-simple-image__picture"

ModifierClassPlain(name) == ImageHolderClass \o "--" \o name

\* the modifier class _acceptTuneView toggles for a tune
ModifierClass(name) == ImageHolderClass \o "--" \o Hyphenate(name)

StartsWith(s, p) == Len(s) >= Len(p) /\ SubSeq(s, 1, Len(p)) = p

EndsWith(s, p) == Len(s) >= Len(p) /\ SubSeq(s, Len(s) - Len(p) + 1, Len(s)) = p

HasSpace(s) == \E i \in 1..Len(s) : SubSeq(s, i, i) = " "

ImageExtensions == {"gif", "jpg", "jpeg", "tiff", "png", "webp"}

\* pasteConfig.patterns.image: /https?:\/\/\S+\.(gif|jpe?g|tiff|png|webp)$/i
\* tested against the whole pasted text
MatchesImagePattern(s) ==
    LET l == ToLowerCase(s)
    IN  \E scheme \in {"http://", "https://"}, ext \in ImageExtensions :
            /\ StartsWith(l, scheme)
            /\ EndsWith(l, "." \o ext)
            /\ Len(l) > Len(scheme) + Len(ext) + 1
            /\ ~HasSpace(SubSeq(l, Len(scheme) + 1, Len(l)))

\* the texts for which the host dispatches a `pattern` paste event
PatternMatches == {s \in PastedTexts : MatchesImagePattern(s)}

\* ------------------------------------------------------------------ state

VARIABLES
    data,             \* this._data
    nodes,            \* this.nodes is filled (render has run)
    blockIndex,       \* this.blockIndex
    readOnly,         \* this.readOnly
    wrapperChildren,  \* children of the wrapper element, in order
    holderChildren,   \* children of the image holder
    imageSrc,         \* image.src
    imageLoading,     \* a source was assigned and neither load nor error fired
    captionHTML,      \* caption.innerHTML
    holderClasses,    \* modifier classes on the image holder
    stretchBlockCall, \* the host's last api.blocks.stretchBlock(index, state)
    imageLoaded,      \* image.onload has run
    loadFailed,       \* image.onerror has run
    readers,          \* the file each FileReader is still encoding, or NoFile
    lastOp,           \* the last call or callback, with its argument
    result            \* what the last call returned, when it returns a record

vars == <<data, nodes, blockIndex, readOnly, wrapperChildren, holderChildren,
          imageSrc, imageLoading, captionHTML, holderClasses, stretchBlockCall,
          imageLoaded, loadFailed, readers, lastOp, result>>

dom == <<wrapperChildren, holderChildren, imageSrc, imageLoading, captionHTML>>

Contains(seq, x) == \E i \in DOMAIN seq : seq[i] = x

Remove(seq, x) == SelectSeq(seq, LAMBDA y : y # x)

\* parent.appendChild(x): x moves to the end if it is already a child
AppendChild(seq, x) == Remove(seq, x) \o <<x>>

\* ------------------------------------------------------------ the record

Defaults == [url |-> "", caption |-> "", withBorder |-> FALSE,
             withBackground |-> FALSE, stretched |-> FALSE]

FieldNames == DOMAIN Defaults

\* Partial<SimpleImageData>: every field may be missing
PartialRecords ==
    [url : Opt(Urls \cup {""}), caption : Opt(Captions \cup {""}),
     withBorder : Opt(BOOLEAN), withBackground : Opt(BOOLEAN),
     stretched : Opt(BOOLEAN)]

\* the constructor's `data` argument, which may itself be missing
CtorArgs == Opt(PartialRecords)

\* data?.f
Field(arg, f) == IF arg = Undefined THEN Undefined ELSE arg[1][f]

InitialDataSwapped(arg) ==
    [url            |-> OrEmpty(Field(arg, "url")),
     caption        |-> OrEmpty(Field(arg, "caption")),
     withBorder     |-> OrFalse(Field(arg, "withBorder")),
     withBackground |-> OrFalse(Field(arg, "withBackground")),
     stretched      |-> OrFalse(Field(arg, "withBackground"))]

\* the object literal the constructor hands to the setter
InitialData(arg) ==
    [url            |-> OrEmpty(Field(arg, "url")),
     caption        |-> OrEmpty(Field(arg, "caption")),
     withBorder     |-> OrFalse(Field(arg, "withBorder")),
     withBackground |-> OrFalse(Field(arg, "withBackground")),
     stretched      |-> OrFalse(Field(arg, "stretched"))]

\* set data, first line: this._data = Object.assign({}, this.data, data)
MergeData(prior, new) == ObjectAssign(ObjectAssign(EmptyObject, prior), new)

\* onPaste, case "tag": img?.src || "" and everything else reset
TagPasteData(src) ==
    [url |-> OrEmpty(src), caption |-> "", withBorder |-> FALSE,
     withBackground |-> FALSE, stretched |-> FALSE]

PatternPasteDataUrlOnly(text) == [url |-> text]

\* onPaste, case "pattern": detail.data and everything else reset
PatternPasteData(text) ==
    [url |-> text, caption |-> "", withBorder |-> FALSE,
     withBackground |-> FALSE, stretched |-> FALSE]

\* FileReader.readAsDataURL: the result handed to reader.onload
DataURL(file) == "data:" \o file.type \o ";base64," \o file.base64

DropDataNoName(file) ==
    [url |-> DataURL(file), caption |-> "", withBorder |-> FALSE,
     withBackground |-> FALSE, stretched |-> FALSE]

\* onDropHandler: the record the promise resolves to
DropData(file) ==
    [url |-> DataURL(file), caption |-> file.name, withBorder |-> FALSE,
     withBackground |-> FALSE, stretched |-> FALSE]

ToggledDataSetOnly(d, tune) == [d EXCEPT ![tune] = TRUE]

\* _toggleTune: this.data[tune] = !this.data[tune]
ToggledData(d, tune) == [d EXCEPT ![tune] = ~d[tune]]

\* s || "" on a string
StrOrEmpty(s) == IF s = "" THEN "" ELSE s

SaveDataKeepCaption(d, imageFound, src, captionFound, html) ==
    IF ~imageFound THEN d ELSE ObjectAssign(d, [url |-> StrOrEmpty(src)])

SaveDataNoGuard(d, imageFound, src, captionFound, html) ==
    ObjectAssign(d, [url     |-> IF imageFound THEN StrOrEmpty(src) ELSE "",
                     caption |-> IF captionFound THEN StrOrEmpty(html) ELSE ""])

\* save: the record returned, which is also this._data afterwards
\* (Object.assign writes into this.data itself)
SaveData(d, imageFound, src, captionFound, html) ==
    IF ~imageFound
    THEN d
    ELSE ObjectAssign(d, [url     |-> StrOrEmpty(src),
                          caption |-> IF captionFound THEN StrOrEmpty(html) ELSE ""])

\* classList.toggle(name, force)
ClassToggle(classes, name, force) ==
    IF force THEN classes \cup {name} ELSE classes \ {name}

\* the modifier class of each tune of this.tunes
TuneClass == [name \in TuneNames |-> ModifierClass(name)]

\* _acceptTuneView's forEach over this.tunes, from the i-th tune on
RECURSIVE TuneViewFrom(_, _, _)
TuneViewFrom(classes, d, i) ==
    IF i > Len(Tunes) THEN classes
    ELSE TuneViewFrom(ClassToggle(classes, TuneClass[Tunes[i]], d[Tunes[i]]),
                      d, i + 1)

TuneView(classes, d) == TuneViewFrom(classes, d, 1)

\* --------------------------------------------------------------- the view

RenderedChildrenAll == <<"loader", "imageHolder", "caption">>

\* render: what the wrapper holds when render returns (only the loader)
RenderedChildren == <<"loader">>

OnLoadChildrenNothing(children) == children

\* image.onload: append the holder, append the caption, remove the loader
OnLoadChildren(children) ==
    Remove(AppendChild(AppendChild(children, "imageHolder"), "caption"), "loader")

\* blockContent.querySelector("img")
ImageInRoot == Contains(wrapperChildren, "imageHolder") /\ Contains(holderChildren, "image")

\* blockContent.querySelector("." + this.CSS.input)
CaptionInRoot == Contains(wrapperChildren, "caption")

\* the block's view once an image has loaded
LoadedView ==
    /\ wrapperChildren = <<"imageHolder", "caption">>
    /\ holderChildren = <<"image">>

\* the api.blocks.stretchBlock call _acceptTuneView makes
StretchCall(d) == Some([index |-> blockIndex, state |-> d.stretched])

\* _acceptTuneView with the record d
AcceptTuneView(d) ==
    IF ~nodes
    THEN UNCHANGED <<holderClasses, stretchBlockCall>>
    ELSE /\ holderClasses' = TuneView(holderClasses, d)
         /\ stretchBlockCall' = StretchCall(d)

\* set data: merge into the record, then push url and caption to cached nodes
SetData(new) ==
    /\ data' = MergeData(data, new)
    /\ IF nodes
       THEN /\ imageSrc' = data'.url
            /\ imageLoading' = TRUE
            /\ captionHTML' = data'.caption
       ELSE UNCHANGED <<imageSrc, imageLoading, captionHTML>>

\* a File that is no file, for calls that take none
NoFile == [name |-> "", type |-> "", base64 |-> ""]

\* a call or callback and its argument, each kind of argument in its own field
Call(op) == [op |-> op, data |-> Undefined, html |-> "", src |-> Undefined,
             text |-> "", file |-> NoFile, tune |-> ""]

\* the FileReaders that can be encoding at once
Readers == 1..MaxPendingReads

IdleReaders == {r \in Readers : readers[r] = NoFile}

\* ------------------------------------------------------------------ Init

Init ==
    \E arg \in CtorArgs, current \in -1..MaxCurrentIndex, ro \in BOOLEAN :
        /\ data = MergeData(EmptyObject, InitialData(arg))
        /\ nodes = FALSE
        /\ blockIndex = current + 1
        /\ readOnly = ro
        /\ wrapperChildren = <<>>
        /\ holderChildren = <<>>
        /\ imageSrc = ""
        /\ imageLoading = FALSE
        /\ captionHTML = ""
        /\ holderClasses = {}
        /\ stretchBlockCall = Undefined
        /\ imageLoaded = FALSE
        /\ loadFailed = FALSE
        /\ readers = [r \in Readers |-> NoFile]
        /\ lastOp = [Call("constructor") EXCEPT !.data = arg]
        /\ result = Undefined

\* --------------------------------------------------------------- actions

Render ==
    /\ ~nodes
    /\ nodes' = TRUE
    /\ wrapperChildren' = RenderedChildren
    /\ holderChildren' = <<>>
    /\ captionHTML' = StrOrEmpty(data.caption)
    /\ IF data.url # ""
       THEN imageSrc' = data.url /\ imageLoading' = TRUE
       ELSE UNCHANGED <<imageSrc, imageLoading>>
    /\ lastOp' = Call("render")
    /\ result' = Undefined
    /\ UNCHANGED <<data, blockIndex, readOnly, holderClasses, stretchBlockCall,
                   imageLoaded, loadFailed, readers>>

\* the browser fires the image's load event
ImageLoad ==
    /\ nodes /\ imageLoading /\ imageSrc # ""
    /\ imageLoading' = FALSE
    /\ imageLoaded' = TRUE
    /\ holderChildren' = AppendChild(holderChildren, "image")
    /\ wrapperChildren' = OnLoadChildren(wrapperChildren)
    /\ AcceptTuneView(data)
    /\ lastOp' = Call("image.onload")
    /\ result' = Undefined
    /\ UNCHANGED <<data, nodes, blockIndex, readOnly, imageSrc, captionHTML,
                   loadFailed, readers>>

\* the browser fires the image's error event
ImageError ==
    /\ nodes /\ imageLoading
    /\ imageLoading' = FALSE
    /\ loadFailed' = TRUE
    /\ lastOp' = Call("image.onerror")
    /\ result' = Undefined
    /\ UNCHANGED <<data, nodes, blockIndex, readOnly, wrapperChildren,
                   holderChildren, imageSrc, captionHTML, holderClasses,
                   stretchBlockCall, imageLoaded, readers>>

Save ==
    /\ nodes
    /\ data' = SaveData(data, ImageInRoot, imageSrc, CaptionInRoot, captionHTML)
    /\ result' = Some(data')
    /\ lastOp' = Call("save")
    /\ UNCHANGED <<nodes, blockIndex, readOnly, dom, holderClasses,
                   stretchBlockCall, imageLoaded, loadFailed, readers>>

\* the user types into the contentEditable caption
EditCaption(html) ==
    /\ nodes /\ ~readOnly /\ CaptionInRoot
    /\ html # captionHTML
    /\ captionHTML' = html
    /\ lastOp' = [Call("caption.input") EXCEPT !.html = html]
    /\ result' = Undefined
    /\ UNCHANGED <<data, nodes, blockIndex, readOnly, wrapperChildren,
                   holderChildren, imageSrc, imageLoading, holderClasses,
                   stretchBlockCall, imageLoaded, loadFailed, readers>>

PasteTag(src) ==
    /\ SetData(TagPasteData(src))
    /\ lastOp' = [Call("onPaste:tag") EXCEPT !.src = src]
    /\ result' = Undefined
    /\ UNCHANGED <<nodes, blockIndex, readOnly, wrapperChildren, holderChildren,
                   holderClasses, stretchBlockCall, imageLoaded, loadFailed, readers>>

PastePattern(text) ==
    /\ SetData(PatternPasteData(text))
    /\ lastOp' = [Call("onPaste:pattern") EXCEPT !.text = text]
    /\ result' = Undefined
    /\ UNCHANGED <<nodes, blockIndex, readOnly, wrapperChildren, holderChildren,
                   holderClasses, stretchBlockCall, imageLoaded, loadFailed, readers>>

PasteFile(file) ==
    /\ IdleReaders # {}
    /\ LET r == CHOOSE i \in IdleReaders : \A j \in IdleReaders : i <= j
       IN  readers' = [readers EXCEPT ![r] = file]
    /\ lastOp' = [Call("onPaste:file") EXCEPT !.file = file]
    /\ result' = Undefined
    /\ UNCHANGED <<data, nodes, blockIndex, readOnly, dom, holderClasses,
                   stretchBlockCall, imageLoaded, loadFailed>>

\* an event type the switch has no case for
PasteOther ==
    /\ lastOp' = Call("onPaste:other")
    /\ result' = Undefined
    /\ UNCHANGED <<data, nodes, blockIndex, readOnly, dom, holderClasses,
                   stretchBlockCall, imageLoaded, loadFailed, readers>>

\* reader.onload resolves the promise and the then-callback assigns this.data
FileReaderLoad(r) ==
    /\ readers[r] # NoFile
    /\ readers' = [readers EXCEPT ![r] = NoFile]
    /\ SetData(DropData(readers[r]))
    /\ lastOp' = [Call("reader.onload") EXCEPT !.file = readers[r]]
    /\ result' = Undefined
    /\ UNCHANGED <<nodes, blockIndex, readOnly, wrapperChildren, holderChildren,
                   holderClasses, stretchBlockCall, imageLoaded, loadFailed>>

ToggleTune(tune) ==
    /\ data' = ToggledData(data, tune)
    /\ AcceptTuneView(ToggledData(data, tune))
    /\ lastOp' = [Call("toggleTune") EXCEPT !.tune = tune]
    /\ result' = Undefined
    /\ UNCHANGED <<nodes, blockIndex, readOnly, dom, imageLoaded, loadFailed, readers>>

Next ==
    \/ Render
    \/ ImageLoad
    \/ ImageError
    \/ Save
    \/ \E html \in Captions \cup {""} : EditCaption(html)
    \/ \E src \in Opt(Urls) : PasteTag(src)
    \/ \E text \in PatternMatches : PastePattern(text)
    \/ \E file \in Files : PasteFile(file)
    \/ PasteOther
    \/ \E r \in Readers : FileReaderLoad(r)
    \/ \E tune \in TuneNames : ToggleTune(tune)

Spec == Init /\ [][Next]_vars

\* the browser eventually fires load or error for an assigned source, and a
\* FileReader eventually finishes encoding
\* an editable block constructed as the editor's first block
LiveInit == Init /\ ~readOnly /\ blockIndex = 0

FairSpec ==
    /\ LiveInit /\ [][Next]_vars
    /\ WF_vars(ImageLoad \/ ImageError)
    /\ \A r \in Readers : WF_vars(FileReaderLoad(r))

\* ---------------------------------------------------------------- claims

\* each tune's modifier class as the stylesheet spells it
ExpectedClass ==
    [withBorder     |-> "cdx-simple-image__picture--with-border",
     withBackground |-> "cdx-simple-image__picture--with-background",
     stretched      |-> "cdx-simple-image__picture--stretched"]

\* the image holder's modifier classes and the host's stretch mark agree with
\* the record
TuneViewInSync ==
    /\ \A tune \in TuneNames : (ExpectedClass[tune] \in holderClasses) <=> data[tune]
    /\ stretchBlockCall = Some([index |-> blockIndex, state |-> data.stretched])

AllReset(url, caption) ==
    [url |-> url, caption |-> caption, withBorder |-> FALSE,
     withBackground |-> FALSE, stretched |-> FALSE]

\* C1: right after construction the record has all five fields; every field
\* the constructor's argument omits has its default and every field it
\* provides has the provided value.
C1_ConstructionMergesDefaults ==
    lastOp.op = "constructor" =>
        /\ DOMAIN data = FieldNames
        /\ \A f \in FieldNames :
              IF lastOp.data = Undefined
              THEN data[f] = Defaults[f]
              ELSE IF lastOp.data[1][f] = Undefined
                   THEN data[f] = Defaults[f]
                   ELSE data[f] = lastOp.data[1][f][1]

\* a partial argument: url and two tunes given, caption and one tune omitted
C1_Witness ==
    /\ lastOp.op = "constructor"
    /\ lastOp.data # Undefined
    /\ lastOp.data[1].url = Some("https://x/y.jpg")
    /\ lastOp.data[1].caption = Undefined
    /\ lastOp.data[1].withBorder = Undefined
    /\ lastOp.data[1].withBackground = Some(FALSE)
    /\ lastOp.data[1].stretched = Some(TRUE)
    /\ data.stretched /\ data.caption = ""

\* C2: save on a root that holds the img and the caption element returns the
\* img's source as url and the caption's markup as caption, and the three
\* tunes as the record had them just before the call.
C2_SaveReadsUrlAndCaptionFromDom ==
    [][(lastOp'.op = "save" /\ ImageInRoot /\ CaptionInRoot) =>
          /\ result' # Undefined
          /\ result'[1].url = imageSrc
          /\ result'[1].caption = captionHTML
          /\ \A tune \in TuneNames : result'[1][tune] = data[tune]
          /\ DOMAIN result'[1] = FieldNames]_vars

\* a save after a file paste, an inline caption edit and a toggle
C2_Witness ==
    /\ lastOp.op = "save"
    /\ ImageInRoot /\ CaptionInRoot
    /\ result # Undefined
    /\ result[1].url = "data:image/png;base64,iVBORw0KGgo="
    /\ result[1].caption = "a<br>b"
    /\ result[1].stretched

\* C3: save on a root with no img returns the record as it was and leaves it
\* unchanged.
C3_SaveWithoutImageIsNoOp ==
    [][(lastOp'.op = "save" /\ ~ImageInRoot) =>
          /\ result' = Some(data)
          /\ data' = data]_vars

\* a save while the first image is still loading, the record not at defaults
C3_Witness ==
    /\ lastOp.op = "save"
    /\ ~ImageInRoot
    /\ imageLoading
    /\ result = Some(data)
    /\ data.url # "" /\ data.caption # "" /\ data.withBackground

\* C4: after a tag paste with source S, or a pattern paste with matched text
\* S, the record is {url: S, caption: "", all three tunes false}.
C4_PasteTagOrPatternResetsRecord ==
    /\ lastOp.op = "onPaste:tag" =>
          data = AllReset(IF lastOp.src = Undefined THEN "" ELSE lastOp.src[1], "")
    /\ lastOp.op = "onPaste:pattern" =>
          data = AllReset(lastOp.text, "")

\* a pattern paste on a loaded block whose tunes were on before the paste
C4_Witness ==
    /\ lastOp.op = "onPaste:pattern"
    /\ lastOp.text = "https://example.com/pic.PNG"
    /\ data.url = "https://example.com/pic.PNG"
    /\ ExpectedClass["withBorder"] \in holderClasses
    /\ imageLoaded

\* C5: a file paste leaves the record as it is; the completion of the file's
\* encoding sets it to {url: data URL, caption: file name, tunes false}
\* whatever ran in between; and every encoding in flight completes.
C5_FilePasteAppliesOnCompletion ==
    /\ [][/\ lastOp'.op = "onPaste:file" => data' = data
          /\ lastOp'.op = "reader.onload" =>
                data' = AllReset("data:" \o lastOp'.file.type \o ";base64,"
                                     \o lastOp'.file.base64,
                                 lastOp'.file.name)]_vars
    /\ \A r \in Readers : (readers[r] # NoFile) ~> (readers[r] = NoFile)

\* cat.png completed on a block that was toggled while the encoding ran
C5_Witness ==
    /\ lastOp.op = "reader.onload"
    /\ data = AllReset("data:image/png;base64,iVBORw0KGgo=", "cat.png")
    /\ ExpectedClass["stretched"] \in holderClasses
    /\ imageLoading

\* C6: a toggle of tune t negates the record's t and leaves url, caption and
\* the other tunes alone; a second toggle of t gives back the record as it was.
C6_ToggleNegatesAndIsInvolution ==
    [][\A tune \in TuneNames :
          (lastOp'.op = "toggleTune" /\ lastOp'.tune = tune) =>
              /\ data'[tune] = ~data[tune]
              /\ \A f \in FieldNames \ {tune} : data'[f] = data[f]
              /\ ToggledData(data', tune) = data]_vars

\* a toggle that switched a tune off on a record with url and caption
C6_Witness ==
    /\ lastOp.op = "toggleTune"
    /\ lastOp.tune = "withBorder"
    /\ ~data.withBorder
    /\ ExpectedClass["withBorder"] \notin holderClasses
    /\ imageLoaded
    /\ data.url # "" /\ data.caption # ""

\* C7: after a toggle on a rendered block the holder has each tune's
\* hyphenated modifier class exactly when the record's tune is true, and the
\* host was told to stretch the block at blockIndex with the record's value.
C7_ToggleRefreshesTuneView ==
    (lastOp.op = "toggleTune" /\ nodes) => TuneViewInSync

\* a toggle on a rendered block that leaves two tunes on
C7_Witness ==
    /\ lastOp.op = "toggleTune"
    /\ nodes
    /\ data.withBorder /\ data.stretched /\ ~data.withBackground
    /\ holderClasses = {ExpectedClass["withBorder"], ExpectedClass["stretched"]}
    /\ stretchBlockCall = Some([index |-> blockIndex, state |-> TRUE])

\* C8 as stated: while an image load is pending the wrapper holds only the
\* loader.
C8_LoaderOnlyWhilePending ==
    (nodes /\ imageLoading) => wrapperChildren = <<"loader">>

\* C8 amended: while an image load is pending and image.onload has not run
\* since render, the wrapper holds only the loader.
C8_LoaderOnlyUntilFirstLoad ==
    (nodes /\ imageLoading /\ ~imageLoaded) => wrapperChildren = <<"loader">>

\* a load started by a paste on a rendered block that has not loaded yet
C8_Witness ==
    /\ nodes /\ imageLoading /\ ~imageLoaded
    /\ lastOp.op = "onPaste:pattern"
    /\ wrapperChildren = <<"loader">>

\* C9 as stated: every rendered block eventually shows the loaded view or has
\* had its error callback run.
C9_RenderedEventuallySettles ==
    nodes ~> (LoadedView \/ loadFailed)

\* C9 amended: every block with a pending image load eventually shows the
\* loaded view or has had its error callback run.
C9_PendingLoadEventuallySettles ==
    (nodes /\ imageLoading) ~> (LoadedView \/ loadFailed)

\* the loaded view, reached by the load callback of a rendered block
C9_Witness ==
    /\ lastOp.op = "image.onload"
    /\ LoadedView
    /\ ~imageLoading /\ ~loadFailed

\* C10: whenever the holder is attached and no load is pending, the modifier
\* classes and the last stretch command agree with the record.
C10_AttachedViewInSync ==
    (nodes /\ Contains(wrapperChildren, "imageHolder") /\ ~imageLoading) =>
        TuneViewInSync

====
